---- MODULE Spec2Model ----
(***************************************************************************)
(* Far Cry server log analysis (src/main.py): reconstruction of absolute  *)
(* frag times from an hour-wrapping <mm:ss> clock (parse_frags), session  *)
(* boundaries (parse_match_start_and_end_times) and per-player kill and   *)
(* death streaks (calculate_serial_killers, calculate_serial_losers).     *)
(*                                                                         *)
(* Three specifications share the variables:                              *)
(*   SpecFrags    parse_frags, one loop iteration per step;               *)
(*   SpecSession  the pipeline of main(): parse_log_start_time,           *)
(*                parse_frags, parse_match_start_and_end_times;           *)
(*   SpecStreaks  the loops of calculate_serial_killers and               *)
(*                calculate_serial_losers and _get_longest_series.        *)
(*                                                                         *)
(* A datetime is the number of seconds since midnight of day 0; an        *)
(* Optional[datetime] is <<>> (None) or <<t>>.  A log is its session-start *)
(* header and its sequence of lines; a line is a record                   *)
(* [kind, min, sec, killer, victim, weapon] where kind is the pattern of  *)
(* src/main.py:14-22 the line matches.                                    *)
(***************************************************************************)
EXTENDS Integers, Sequences, FiniteSets, TLC

VARIABLES
    pc,             \* position of the program
    header,         \* the 'Log Started at' line of the log text
    lines,          \* the other lines of the log text, in file order
    raised,         \* the exception that left the program, "none" if none
    frag_time,      \* parse_frags: the running reference time
    frags,          \* the frag list (parse_frags' result, the streaks' input)
    log_start,      \* main: parse_log_start_time's result
    start_time,     \* parse_match_start_and_end_times: the start
    end_time,       \* parse_match_start_and_end_times: the end
    serial_killers, \* calculate_serial_killers: player -> list of lists
    serial_losers,  \* calculate_serial_losers: player -> list of lists
    longest_killers,\* calculate_serial_killers' result
    longest_losers  \* calculate_serial_losers' result

vars == <<pc, header, lines, raised, frag_time, frags, log_start, start_time,
          end_time, serial_killers, serial_losers, longest_killers,
          longest_losers>>

----------------------------------------------------------------------------
(* Bounds *)

\* the most frag lines a log of SpecFrags holds
MaxFrags == 3
\* the most lines a log of SpecSession holds
MaxLines == 3
\* the most frags a frag list of SpecStreaks holds
MaxStreakFrags == 4

----------------------------------------------------------------------------
(* datetime *)

None == <<>>
Some(t) == <<t>>
Val(o) == o[1]

MkTime(d, h, m, s) == ((d * 24 + h) * 60 + m) * 60 + s
Date(t) == t \div 86400
HourIndex(t) == t \div 3600
HourOfDay(t) == (t \div 3600) % 24
MinuteOf(t) == (t \div 60) % 60
SecondOf(t) == t % 60

\* datetime.replace(minute=m, second=s)
Replace(t, m, s) == t - (t % 3600) + m * 60 + s
\* t + timedelta(hours=1)
PlusHour(t) == t + 3600

----------------------------------------------------------------------------
(* The log text *)

NoStartLine == [kind |-> "none", t |-> 0]
\* a line START_TIME_PATTERN matches and strptime rejects (ValueError)
BadStartLine == [kind |-> "bad", t |-> 0]
StartLine(t) == [kind |-> "ok", t |-> t]

FragLine(m, s, k, v, w) ==
    [kind |-> "frag", min |-> m, sec |-> s, killer |-> k, victim |-> v,
     weapon |-> w]
\* a line of another pattern: "stats" (STATISTICS_PATTERN), "loaded"
\* (LEVEL_LOADED_PATTERN), "other" (another line that starts <mm:ss>),
\* "plain" (a line with no <mm:ss> prefix)
OtherLine(kind, m, s) ==
    [kind |-> kind, min |-> m, sec |-> s, killer |-> "", victim |-> "",
     weapon |-> ""]

\* findall(FRAG_PATTERN, log_data, M): the groups (min, sec, killer, victim,
\* weapon) of every frag line; victim and weapon are '' for 'killed itself'
FindallFrags(ls) == SelectSeq(ls, LAMBDA l : l.kind = "frag")

\* search(pattern, data, M): the index of the first line of that kind, 0 if
\* there is none
RECURSIVE SearchFrom(_, _, _)
SearchFrom(ls, kind, i) ==
    IF i > Len(ls) THEN 0
    ELSE IF ls[i].kind = kind THEN i
    ELSE SearchFrom(ls, kind, i + 1)
Search(ls, kind) == SearchFrom(ls, kind, 1)

----------------------------------------------------------------------------
(* parse_log_start_time *)

\* "raise": the bare raise of line 97 with no active exception is a
\* RuntimeError, which the except clause of line 103 (ValueError,
\* LookupError) does not catch.  "none": strptime's ValueError is caught and
\* the function falls off its end.  Otherwise the start time; the timezone
\* of lines 98-101 is attached with replace(tzinfo=...), which leaves the
\* date and time fields as they are.
ParseLogStartTime(h) ==
    IF h.kind = "none" THEN [exc |-> "RuntimeError", value |-> None]
    ELSE IF h.kind = "bad" THEN [exc |-> "none", value |-> None]
    ELSE [exc |-> "none", value |-> Some(h.t)]

----------------------------------------------------------------------------
(* parse_frags *)

\* the wrap test with <= for <: an equal minute counts as a wrap
Wrapped_OrEqual(i, frag_min, ft, matches) ==
    \/ i = 0 /\ frag_min <= MinuteOf(ft)
    \/ i > 0 /\ frag_min <= matches[i].min

\* the wrap test without its second disjunct: only the first frag can wrap
Wrapped_FirstOnly(i, frag_min, ft, matches) ==
    i = 0 /\ frag_min < MinuteOf(ft)

\* lines 144-145: the hour has wrapped
Wrapped(i, frag_min, ft, matches) ==
    \/ i = 0 /\ frag_min < MinuteOf(ft)
    \/ i > 0 /\ frag_min < matches[i].min

\* lines 142-149: the reference time after the frag at (0-based) index i,
\* matches[i + 1]
NextFragTime(i, ft, matches) ==
    LET frag == matches[i + 1]
        bumped == IF Wrapped(i, frag.min, ft, matches) THEN PlusHour(ft)
                  ELSE ft
    IN Replace(bumped, frag.min, frag.sec)

\* lines 150-153: the tuple appended to frags
FragTuple(t, frag) ==
    IF frag.victim = "" THEN <<t, frag.killer>>
    ELSE <<t, frag.killer, frag.victim, frag.weapon>>

\* lines 141-153: the whole loop, from index i with reference time ft
RECURSIVE FragLoop(_, _, _, _)
FragLoop(i, ft, matches, acc) ==
    IF i >= Len(matches) THEN acc
    ELSE LET t == NextFragTime(i, ft, matches)
         IN FragLoop(i + 1, t, matches,
                     Append(acc, FragTuple(t, matches[i + 1])))

\* lines 137-156
ParseFrags(h, ls) ==
    LET r == ParseLogStartTime(h)
    IN IF r.exc # "none" THEN [exc |-> r.exc, value |-> <<>>]
       ELSE IF r.value = None THEN [exc |-> "none", value |-> <<>>]
       ELSE [exc |-> "none",
             value |-> FragLoop(0, Val(r.value), FindallFrags(ls), <<>>)]

----------------------------------------------------------------------------
(* SpecFrags: parse_frags step by step.  lines holds the frag lines the     *)
(* loop has consumed; the next one is drawn when the loop reaches it.       *)

FragMinutes == {2, 5, 58, 59}
FragSeconds == {10, 50}
StartTimes ==
    {MkTime(1, h, m, 30) : h \in {10, 23}, m \in {5, 58, 59}}
Headers == {NoStartLine, BadStartLine} \cup {StartLine(t) : t \in StartTimes}
FragLines ==
    {FragLine(m, s, "A", "B", "Shotgun") : m \in FragMinutes, s \in FragSeconds}
    \cup {FragLine(m, s, "A", "", "") : m \in FragMinutes, s \in FragSeconds}

Unused ==
    /\ log_start = None /\ start_time = None /\ end_time = None
    /\ serial_killers = <<>> /\ serial_losers = <<>>
    /\ longest_killers = <<>> /\ longest_losers = <<>>

InitFrags ==
    /\ pc = "start"
    /\ header \in Headers
    /\ lines = <<>>
    /\ raised = "none"
    /\ frag_time = None
    /\ frags = <<>>
    /\ Unused

\* line 138, the start line missing: the RuntimeError leaves parse_frags
SeedRaises ==
    /\ pc = "start"
    /\ ParseLogStartTime(header).exc # "none"
    /\ raised' = ParseLogStartTime(header).exc
    /\ pc' = "raised"
    /\ UNCHANGED <<header, lines, frag_time, frags, log_start, start_time,
                   end_time, serial_killers, serial_losers, longest_killers,
                   longest_losers>>

\* line 138
Seed ==
    /\ pc = "start"
    /\ ParseLogStartTime(header).exc = "none"
    /\ frag_time' = ParseLogStartTime(header).value
    /\ pc' = "seeded"
    /\ UNCHANGED <<header, lines, raised, frags, log_start, start_time,
                   end_time, serial_killers, serial_losers, longest_killers,
                   longest_losers>>

\* lines 139, 154-156: no start time, the warning and the empty list
NoStartTime ==
    /\ pc = "seeded"
    /\ frag_time = None
    /\ pc' = "done"
    /\ UNCHANGED <<header, lines, raised, frag_time, frags, log_start,
                   start_time, end_time, serial_killers, serial_losers,
                   longest_killers, longest_losers>>

\* lines 141-153: one iteration, on the next frag line of the log
FragIteration ==
    /\ pc = "seeded"
    /\ frag_time # None
    /\ Len(lines) < MaxFrags
    /\ \E l \in FragLines :
         LET matches == FindallFrags(Append(lines, l))
             i == Len(lines)
             t == NextFragTime(i, Val(frag_time), matches)
         IN /\ lines' = Append(lines, l)
            /\ frag_time' = Some(t)
            /\ frags' = Append(frags, FragTuple(t, matches[i + 1]))
    /\ UNCHANGED <<pc, header, raised, log_start, start_time, end_time,
                   serial_killers, serial_losers, longest_killers,
                   longest_losers>>

\* line 156, after the last frag line
FragsReturn ==
    /\ pc = "seeded"
    /\ frag_time # None
    /\ pc' = "done"
    /\ UNCHANGED <<header, lines, raised, frag_time, frags, log_start,
                   start_time, end_time, serial_killers, serial_losers,
                   longest_killers, longest_losers>>

NextFrags ==
    \/ SeedRaises
    \/ Seed
    \/ NoStartTime
    \/ FragIteration
    \/ FragsReturn

SpecFrags == InitFrags /\ [][NextFrags]_vars

----------------------------------------------------------------------------
(* parse_match_start_and_end_times *)

\* lines 209-220; start is log_start, an Optional[datetime]: None.replace
\* is an AttributeError
ParseStartTime(ls, start) ==
    LET i == Search(ls, "loaded")
    IN IF i = 0 THEN [exc |-> "none", value |-> None]
       ELSE IF start = None THEN [exc |-> "AttributeError", value |-> None]
       ELSE LET st == Replace(Val(start), ls[i].min, ls[i].sec)
            IN [exc |-> "none",
                value |-> Some(IF MinuteOf(st) < MinuteOf(Val(start))
                               THEN PlusHour(st) ELSE st)]

\* True for a line that starts <mm:ss>
Stamped(l) == l.kind # "plain"

\* lines 225-235: the (minute, second) the end is taken from, <<>> when
\* both stay None.  A frag line ends where FRAG_PATTERN's match ends, so
\* last_frag.end() + 1 is the start of the next line.
EndMinuteSecond(ls) ==
    LET statistic_match == Search(ls, "stats")
        last_frag == Search(ls, "frag")
    IN IF statistic_match # 0
       THEN <<ls[statistic_match].min, ls[statistic_match].sec>>
       ELSE IF last_frag # 0 /\ last_frag + 1 <= Len(ls)
               /\ Stamped(ls[last_frag + 1])
       THEN <<ls[last_frag + 1].min, ls[last_frag + 1].sec>>
       ELSE <<>>

\* lines 237-242
EndTimeFrom(start, ms) ==
    LET et == Replace(start, ms[1], ms[2])
    IN IF MinuteOf(et) < MinuteOf(start) THEN PlusHour(et) ELSE et

\* lines 223-243
ParseEndTime(ls, start) ==
    IF EndMinuteSecond(ls) # <<>>
    THEN Some(EndTimeFrom(start, EndMinuteSecond(ls)))
    ELSE None

----------------------------------------------------------------------------
(* SpecSession: the pipeline of main() (lines 486-491) on a whole log.      *)

SessionClock == {<<10, 15>>, <<20, 30>>, <<2, 5>>}
SessionLines ==
    {FragLine(c[1], c[2], "A", "B", "Shotgun") : c \in SessionClock}
    \cup {OtherLine(k, c[1], c[2]) :
            k \in {"stats", "loaded", "other"}, c \in SessionClock}
    \cup {OtherLine("plain", 0, 0)}
SessionHeaders ==
    {NoStartLine, BadStartLine, StartLine(MkTime(1, 23, 12, 30))}

RECURSIVE SeqsUpTo(_, _)
SeqsUpTo(S, n) ==
    IF n = 0 THEN {<<>>}
    ELSE SeqsUpTo(S, n - 1)
         \cup {Append(q, x) : q \in {r \in SeqsUpTo(S, n - 1) : Len(r) = n - 1},
                              x \in S}

InitSession ==
    /\ pc = "start"
    /\ header \in SessionHeaders
    /\ lines \in SeqsUpTo(SessionLines, MaxLines)
    /\ raised = "none"
    /\ frag_time = None
    /\ frags = <<>>
    /\ Unused

\* line 487, the start line missing
LogStartRaises ==
    /\ pc = "start"
    /\ ParseLogStartTime(header).exc # "none"
    /\ raised' = ParseLogStartTime(header).exc
    /\ pc' = "raised"
    /\ UNCHANGED <<header, lines, frag_time, frags, log_start, start_time,
                   end_time, serial_killers, serial_losers, longest_killers,
                   longest_losers>>

\* line 487
LogStart ==
    /\ pc = "start"
    /\ ParseLogStartTime(header).exc = "none"
    /\ log_start' = ParseLogStartTime(header).value
    /\ pc' = "frags"
    /\ UNCHANGED <<header, lines, raised, frag_time, frags, start_time,
                   end_time, serial_killers, serial_losers, longest_killers,
                   longest_losers>>

\* line 489
Frags ==
    /\ pc = "frags"
    /\ frags' = ParseFrags(header, lines).value
    /\ pc' = "session"
    /\ UNCHANGED <<header, lines, raised, frag_time, log_start, start_time,
                   end_time, serial_killers, serial_losers, longest_killers,
                   longest_losers>>

\* line 203: _parse_start_time raises
StartTimeRaises ==
    /\ pc = "session"
    /\ ParseStartTime(lines, log_start).exc # "none"
    /\ raised' = ParseStartTime(lines, log_start).exc
    /\ pc' = "raised"
    /\ UNCHANGED <<header, lines, frag_time, frags, log_start, start_time,
                   end_time, serial_killers, serial_losers, longest_killers,
                   longest_losers>>

\* line 204: frags[-1] of the empty list
LastFragRaises ==
    /\ pc = "session"
    /\ ParseStartTime(lines, log_start).exc = "none"
    /\ frags = <<>>
    /\ raised' = "IndexError"
    /\ pc' = "raised"
    /\ UNCHANGED <<header, lines, frag_time, frags, log_start, start_time,
                   end_time, serial_killers, serial_losers, longest_killers,
                   longest_losers>>

\* lines 203-206
SessionReturn ==
    /\ pc = "session"
    /\ ParseStartTime(lines, log_start).exc = "none"
    /\ frags # <<>>
    /\ start_time' = ParseStartTime(lines, log_start).value
    /\ end_time' = ParseEndTime(lines, frags[Len(frags)][1])
    /\ pc' = "returned"
    /\ UNCHANGED <<header, lines, raised, frag_time, frags, log_start,
                   serial_killers, serial_losers, longest_killers,
                   longest_losers>>

NextSession ==
    \/ LogStartRaises
    \/ LogStart
    \/ Frags
    \/ StartTimeRaises
    \/ LastFragRaises
    \/ SessionReturn

SpecSession == InitSession /\ [][NextSession]_vars

----------------------------------------------------------------------------
(* calculate_serial_killers, calculate_serial_losers, _get_longest_series  *)
(* A dict is a function whose domain is its key set; a frag is the tuple    *)
(* parse_frags builds, <<time, killer>> or <<time, killer, victim, weapon>>. *)

\* Python's None in a tuple of strings
NoneStr == "None"

\* dict.setdefault(k, default), the dict afterwards
SetDefault(d, k, default) ==
    IF k \in DOMAIN d THEN d ELSE d @@ (k :> default)

\* series[-1].append(e)
AppendToLast(series, e) ==
    [series EXCEPT ![Len(series)] = Append(@, e)]

\* lines 427-428
KillersSuicide(d, frag) ==
    [SetDefault(d, frag[2], <<>>) EXCEPT ![frag[2]] = Append(@, <<>>)]

\* lines 429-432
KillersKill(d, frag) ==
    LET credited ==
            [SetDefault(d, frag[2], << <<>> >>) EXCEPT
                ![frag[2]] = AppendToLast(@, <<frag[1], frag[3], frag[4]>>)]
    IN [SetDefault(credited, frag[3], <<>>) EXCEPT
            ![frag[3]] = Append(@, <<>>)]

\* the kill branch without line 432: the victim's streak is not closed
KillersBody_VictimKeepsStreak(d, frag) ==
    IF Len(frag) = 2 THEN KillersSuicide(d, frag)
    ELSE IF Len(frag) = 4
    THEN [SetDefault(d, frag[2], << <<>> >>) EXCEPT
            ![frag[2]] = AppendToLast(@, <<frag[1], frag[3], frag[4]>>)]
    ELSE d

\* lines 427-432: the loop body of calculate_serial_killers
KillersBody(d, frag) ==
    IF Len(frag) = 2 THEN KillersSuicide(d, frag)
    ELSE IF Len(frag) = 4 THEN KillersKill(d, frag)
    ELSE d

\* lines 451-453
LosersSuicide(d, frag) ==
    [SetDefault(d, frag[2], << <<>> >>) EXCEPT
        ![frag[2]] = AppendToLast(@, <<frag[1], NoneStr, NoneStr>>)]

\* lines 454-457
LosersKill(d, frag) ==
    LET debited ==
            [SetDefault(d, frag[3], << <<>> >>) EXCEPT
                ![frag[3]] = AppendToLast(@, <<frag[1], frag[2], frag[4]>>)]
    IN [SetDefault(debited, frag[2], <<>>) EXCEPT
            ![frag[2]] = Append(@, <<>>)]

\* the suicide branch written like that of calculate_serial_killers: a
\* suicide closes the death streak and is not counted
LosersBody_SuicideBreaks(d, frag) ==
    IF Len(frag) = 2 THEN KillersSuicide(d, frag)
    ELSE IF Len(frag) = 4 THEN LosersKill(d, frag)
    ELSE d

\* lines 451-457: the loop body of calculate_serial_losers
LosersBody(d, frag) ==
    IF Len(frag) = 2 THEN LosersSuicide(d, frag)
    ELSE IF Len(frag) = 4 THEN LosersKill(d, frag)
    ELSE d

\* max(series, key=len): the first of the longest lists
RECURSIVE MaxByLenFrom(_, _, _)
MaxByLenFrom(series, i, best) ==
    IF i > Len(series) THEN best
    ELSE MaxByLenFrom(series, i + 1,
                      IF Len(series[i]) > Len(best) THEN series[i] ELSE best)
\* the last of the longest lists
RECURSIVE MaxByLenLastFrom(_, _, _)
MaxByLenLastFrom(series, i, best) ==
    IF i > Len(series) THEN best
    ELSE MaxByLenLastFrom(series, i + 1,
                          IF Len(series[i]) >= Len(best) THEN series[i]
                          ELSE best)
MaxByLen_Last(series) == MaxByLenLastFrom(series, 2, series[1])

MaxByLen(series) == MaxByLenFrom(series, 2, series[1])

\* the players whose longest list is empty are left out
GetLongestSeries_DropEmpty(dictionary) ==
    [player \in {q \in DOMAIN dictionary : MaxByLen(dictionary[q]) # <<>>}
        |-> MaxByLen(dictionary[player])]

\* lines 470-473
GetLongestSeries(dictionary) ==
    [player \in DOMAIN dictionary |-> MaxByLen(dictionary[player])]

----------------------------------------------------------------------------
(* SpecStreaks: the two loops over one frag list, a frag at a time: the     *)
(* loop of calculate_serial_killers takes the next frag of the list, then   *)
(* the loop of calculate_serial_losers takes the same frag.  The game logs  *)
(* a self-kill as 'killed itself', so a kill frag has two players.          *)

Players == {"A", "B", "C"}
StreakFrags(t) ==
    {<<t, k>> : k \in Players}
    \cup {<<t, kv[1], kv[2], "Shotgun">> :
            kv \in {x \in Players \X Players : x[1] # x[2]}}

InitStreaks ==
    /\ pc = "killers"
    /\ header = NoStartLine
    /\ lines = <<>>
    /\ raised = "none"
    /\ frag_time = None
    /\ frags = <<>>
    /\ Unused

\* lines 426-432: one iteration of calculate_serial_killers, on the next
\* frag of the list
KillersIteration ==
    /\ pc = "killers"
    /\ Len(frags) < MaxStreakFrags
    /\ \E frag \in StreakFrags(Len(frags) + 1) :
         /\ frags' = Append(frags, frag)
         /\ serial_killers' = KillersBody(serial_killers, frag)
    /\ pc' = "losers"
    /\ UNCHANGED <<header, lines, raised, frag_time, log_start, start_time,
                   end_time, serial_losers, longest_killers, longest_losers>>

\* lines 450-457: one iteration of calculate_serial_losers, on the same frag
LosersIteration ==
    /\ pc = "losers"
    /\ serial_losers' = LosersBody(serial_losers, frags[Len(frags)])
    /\ pc' = "killers"
    /\ UNCHANGED <<header, lines, raised, frag_time, frags, log_start,
                   start_time, end_time, serial_killers, longest_killers,
                   longest_losers>>

\* lines 433 and 458: both loops are through the list
StreaksReturn ==
    /\ pc = "killers"
    /\ longest_killers' = GetLongestSeries(serial_killers)
    /\ longest_losers' = GetLongestSeries(serial_losers)
    /\ pc' = "returned"
    /\ UNCHANGED <<header, lines, raised, frag_time, frags, log_start,
                   start_time, end_time, serial_killers, serial_losers>>

NextStreaks ==
    \/ KillersIteration
    \/ LosersIteration
    \/ StreaksReturn

SpecStreaks == InitStreaks /\ [][NextStreaks]_vars

----------------------------------------------------------------------------
(* Claims about parse_frags (SpecFrags) *)

FragTimeAt(i) == frags[i][1]

\* the frag timestamps never decrease in list order
TimesNonDecreasing ==
    \A i, j \in 1..Len(frags) : i < j => FragTimeAt(i) <= FragTimeAt(j)

\* every frag's minute and second are those of its log line
RawMinuteSecondKept ==
    /\ Len(frags) = Len(lines)
    /\ \A i \in 1..Len(frags) :
         /\ MinuteOf(FragTimeAt(i)) = lines[i].min
         /\ SecondOf(FragTimeAt(i)) = lines[i].sec

RawMinutesNonDecreasing ==
    \A i \in 1..(Len(lines) - 1) : lines[i].min <= lines[i + 1].min

RawPairsNonDecreasing ==
    \A i \in 1..(Len(lines) - 1) :
        \/ lines[i].min < lines[i + 1].min
        \/ lines[i].min = lines[i + 1].min /\ lines[i].sec <= lines[i + 1].sec

\* C1: with no 'Log Started at' line in the log text, parse_frags ends by
\* returning the empty frag list; it does not end by raising.
C1_NoStartLineReturnsEmpty ==
    (header = NoStartLine /\ pc \in {"done", "raised"})
        => (pc = "done" /\ raised = "none" /\ frags = <<>>)

RawMinutes58Then02 ==
    /\ pc = "done" /\ header.kind = "ok"
    /\ Len(lines) = 2 /\ lines[1].min = 58 /\ lines[2].min = 2

\* C3 as stated: with the session start at hour H (any start minute and
\* second) and raw frag minutes [58, 02], the second frag is at hour H+1.
C3_SecondFragNextHour ==
    RawMinutes58Then02
        => HourIndex(FragTimeAt(2)) = HourIndex(header.t) + 1

\* C3 as amended: with the session start at hour H and raw frag minutes
\* [58, 02], the second frag is in the hour after the first frag's: hour H+1
\* when the start minute is at most 58, hour H+2 when the start minute is
\* 59 (hours counted on through midnight).
C3_SecondFragHourAfterFirst ==
    RawMinutes58Then02
        => /\ HourIndex(FragTimeAt(2)) = HourIndex(FragTimeAt(1)) + 1
           /\ HourIndex(FragTimeAt(2)) =
                HourIndex(header.t)
                + (IF MinuteOf(header.t) <= 58 THEN 1 ELSE 2)

\* raw minutes [58, 02] parsed after a start at minute 59
C3_Witness == RawMinutes58Then02 /\ MinuteOf(header.t) = 59

\* the first instant at or after prev at which the game clock reads m:s
TrueNext(prev, m, s) ==
    IF Replace(prev, m, s) >= prev THEN Replace(prev, m, s)
    ELSE Replace(prev, m, s) + 3600

\* the one timeline from the session start that the log lines are the
\* readings of and whose every gap is under 60 minutes
RECURSIVE TrueTimeline(_, _, _)
TrueTimeline(prev, ls, i) ==
    IF i > Len(ls) THEN <<>>
    ELSE <<TrueNext(prev, ls[i].min, ls[i].sec)>>
         \o TrueTimeline(TrueNext(prev, ls[i].min, ls[i].sec), ls, i + 1)

GapsUnderAnHour(start, truth) ==
    \A i \in 1..Len(truth) :
        LET prev == IF i = 1 THEN start ELSE truth[i - 1]
        IN /\ prev <= truth[i] /\ truth[i] - prev < 3600
           /\ MinuteOf(truth[i]) = lines[i].min
           /\ SecondOf(truth[i]) = lines[i].sec

\* C4: when the log lines are the minute:second readings of a true timeline
\* that starts at the session start and whose every gap (start to first
\* frag, frag to next frag) is under 60 minutes, the timestamps parse_frags
\* returns never decrease in list order.
C4_NoDecreaseUnderHourGaps ==
    (pc = "done" /\ header.kind = "ok")
        => (GapsUnderAnHour(header.t, TrueTimeline(header.t, lines, 1))
                => TimesNonDecreasing)

----------------------------------------------------------------------------
(* Claims about parse_match_start_and_end_times (SpecSession) *)

\* the index of the last frag line, 0 if there is none
RECURSIVE LastFragLineFrom(_, _)
LastFragLineFrom(ls, i) ==
    IF i = 0 THEN 0
    ELSE IF ls[i].kind = "frag" THEN i
    ELSE LastFragLineFrom(ls, i - 1)
LastFragLine(ls) == LastFragLineFrom(ls, Len(ls))

\* the (minute, second) of the end as C5 has it
ClaimedEndMinuteSecond(ls) ==
    IF Search(ls, "stats") # 0
    THEN <<ls[Search(ls, "stats")].min, ls[Search(ls, "stats")].sec>>
    ELSE IF LastFragLine(ls) # 0 /\ LastFragLine(ls) + 1 <= Len(ls)
            /\ Stamped(ls[LastFragLine(ls) + 1])
    THEN <<ls[LastFragLine(ls) + 1].min, ls[LastFragLine(ls) + 1].sec>>
    ELSE <<>>

\* C5: the end's (minute, second) come from the statistics line when there
\* is one, else from the timestamped line right after the LAST frag line,
\* and the end is None when there is neither.
C5_EndFromLineAfterLastFrag ==
    pc = "returned"
        => end_time =
             (IF ClaimedEndMinuteSecond(lines) = <<>> THEN None
              ELSE Some(EndTimeFrom(frags[Len(frags)][1],
                                    ClaimedEndMinuteSecond(lines))))

\* C6: parse_match_start_and_end_times returns a pair for every log and
\* frag list it is called with, the empty frag list included (no exception
\* leaves it), and with no frags the end is None exactly when the log has no
\* end line and otherwise carries that line's minute and second.
C6_AlwaysReturnsPair ==
    /\ pc = "raised" => raised = "RuntimeError"
    /\ (pc \in {"returned", "raised"} /\ raised # "RuntimeError"
            /\ frags = <<>>)
         => /\ pc = "returned"
            /\ (end_time = None) = (ClaimedEndMinuteSecond(lines) = <<>>)
            /\ end_time # None
                 => /\ MinuteOf(Val(end_time)) = ClaimedEndMinuteSecond(lines)[1]
                    /\ SecondOf(Val(end_time)) = ClaimedEndMinuteSecond(lines)[2]

----------------------------------------------------------------------------
(* Claims about the streaks (SpecStreaks) *)

\* a player's list of streak lists; a player the dict does not hold has none
Lists(d, p) == IF p \in DOMAIN d THEN d[p] ELSE <<>>

\* a list of streak lists after its current (last) list has gained e; the
\* current list of a player with no list yet is a new empty one
GainLast(series, e) ==
    IF series = <<>> THEN << <<e>> >> ELSE AppendToLast(series, e)

IsKill(f) == Len(f) = 4
IsSuicide(f) == Len(f) = 2
KillsAs(f, p) == IsKill(f) /\ f[2] = p
DiesAs(f, p) == (IsKill(f) /\ f[3] = p) \/ (IsSuicide(f) /\ f[2] = p)

\* C7: processing one kill frag (killer K, victim V, weapon W, time t)
\* changes the streak state in exactly this way: K's current kill-streak
\* list gains (t, V, W); a new empty kill-streak list is appended for V; V's
\* current death-streak list gains (t, K, W); a new empty death-streak list
\* is appended for K; the lists of every other player are unchanged.
C7_KillFragEffect ==
    [][/\ (pc = "killers" /\ pc' = "losers" /\ IsKill(frags'[Len(frags')]))
            => LET f == frags'[Len(frags')]
               IN /\ Lists(serial_killers', f[2]) =
                        GainLast(Lists(serial_killers, f[2]),
                                 <<f[1], f[3], f[4]>>)
                  /\ Lists(serial_killers', f[3]) =
                        Append(Lists(serial_killers, f[3]), <<>>)
                  /\ \A p \in Players \ {f[2], f[3]} :
                        /\ Lists(serial_killers', p) = Lists(serial_killers, p)
                        /\ (p \in DOMAIN serial_killers')
                              = (p \in DOMAIN serial_killers)
                  /\ serial_losers' = serial_losers
       /\ (pc = "losers" /\ pc' = "killers" /\ IsKill(frags[Len(frags)]))
            => LET f == frags[Len(frags)]
               IN /\ Lists(serial_losers', f[3]) =
                        GainLast(Lists(serial_losers, f[3]),
                                 <<f[1], f[2], f[4]>>)
                  /\ Lists(serial_losers', f[2]) =
                        Append(Lists(serial_losers, f[2]), <<>>)
                  /\ \A p \in Players \ {f[2], f[3]} :
                        /\ Lists(serial_losers', p) = Lists(serial_losers, p)
                        /\ (p \in DOMAIN serial_losers')
                              = (p \in DOMAIN serial_losers)
                  /\ serial_killers' = serial_killers
      ]_vars

\* both loops have processed a kill frag whose killer had an open kill
\* streak and whose victim had an open death streak, with a third player in
\* the dicts
C7_Witness ==
    /\ pc = "killers" /\ Len(frags) >= 3
    /\ IsKill(frags[Len(frags)])
    /\ LET f == frags[Len(frags)]
       IN /\ Len(serial_killers[f[2]][Len(serial_killers[f[2]])]) >= 2
          /\ Len(serial_losers[f[3]][Len(serial_losers[f[3]])]) >= 2
          /\ Len(serial_killers[f[3]]) >= 2
          /\ DOMAIN serial_killers = Players

\* the players of a frag list
Observed(fs) ==
    {fs[i][2] : i \in 1..Len(fs)}
    \cup {fs[i][3] : i \in {j \in 1..Len(fs) : IsKill(fs[j])}}

\* the entries Entry(f) of the frags among fs[lo + 1 .. hi] that Counts
\* holds of, in order
EntriesIn(fs, lo, hi, Counts(_), Entry(_)) ==
    LET sel == SelectSeq(SubSeq(fs, lo + 1, hi), Counts)
    IN [i \in 1..Len(sel) |-> Entry(sel[i])]

\* where a run can start: the start of the list and every breaking frag
RunStarts(fs, Breaks(_)) == {0} \cup {i \in 1..Len(fs) : Breaks(fs[i])}

\* where the run that starts after lo ends: the next breaking frag, or the
\* end of the list
RunEnd(fs, lo, Breaks(_)) ==
    IF \E i \in (lo + 1)..Len(fs) : Breaks(fs[i])
    THEN CHOOSE i \in (lo + 1)..Len(fs) :
            /\ Breaks(fs[i])
            /\ \A j \in (lo + 1)..(i - 1) : ~Breaks(fs[j])
    ELSE Len(fs)

\* the earliest of the longest maximal runs
LongestRun(fs, Counts(_), Entry(_), Breaks(_)) ==
    LET Run(lo) == EntriesIn(fs, lo, RunEnd(fs, lo, Breaks), Counts, Entry)
        first == CHOOSE lo \in RunStarts(fs, Breaks) :
                    /\ \A o \in RunStarts(fs, Breaks) :
                          Len(Run(o)) <= Len(Run(lo))
                    /\ \A o \in RunStarts(fs, Breaks) :
                          o < lo => Len(Run(o)) < Len(Run(lo))
    IN Run(first)

LongestKillRun(fs, p) ==
    LongestRun(fs, LAMBDA f : KillsAs(f, p),
               LAMBDA f : <<f[1], f[3], f[4]>>,
               LAMBDA f : DiesAs(f, p))

LongestDeathRun(fs, p) ==
    LongestRun(fs, LAMBDA f : DiesAs(f, p),
               LAMBDA f : IF IsKill(f) THEN <<f[1], f[2], f[4]>>
                          ELSE <<f[1], NoneStr, NoneStr>>,
               LAMBDA f : KillsAs(f, p))

\* C8: for every frag list and every player P of it,
\* calculate_serial_killers(frags)[P] is the longest maximal run of P's
\* kills, in order, that P's dying (as victim or by suicide) does not
\* interrupt, the earliest of them when several are as long.
C8_LongestKillRun ==
    pc = "returned"
        => \A p \in Observed(frags) :
              /\ p \in DOMAIN longest_killers
              /\ longest_killers[p] = LongestKillRun(frags, p)

\* the result for a player with two kill runs of the greatest length, one
\* kill each, the later one still open: the earlier one is returned
C8_Witness ==
    /\ pc = "returned"
    /\ \E p \in Observed(frags) :
         /\ Len(longest_killers[p]) = 1
         /\ longest_killers[p][1][1] = 1
         /\ KillsAs(frags[Len(frags)], p)
         /\ Cardinality({i \in 1..Len(frags) : KillsAs(frags[i], p)}) = 2

\* C9: for every frag list and every player P of it,
\* calculate_serial_losers(frags)[P] is the longest maximal run of P's
\* deaths, in order: (time, killer, weapon) when P is the victim of a kill,
\* (time, None, None) when P commits suicide; only a kill scored by P breaks
\* a run, a suicide never does; the earliest run when several are as long.
C9_LongestDeathRun ==
    pc = "returned"
        => \A p \in Observed(frags) :
              /\ p \in DOMAIN longest_losers
              /\ longest_losers[p] = LongestDeathRun(frags, p)

\* the result for a player whose longest death run holds a suicide between
\* two deaths and comes after a kill the player scored
C9_Witness ==
    /\ pc = "returned"
    /\ \E p \in Observed(frags) :
         /\ Len(longest_losers[p]) = 3
         /\ longest_losers[p][2][2] = NoneStr
         /\ longest_losers[p][1][2] # NoneStr
         /\ KillsAs(frags[1], p)

\* C10: the key sets of both results are exactly the players of the frag
\* list (killers, victims, suicide actors), and a player's entry is the
\* empty list when the player has no kill (respectively no death).
C10_KeysArePlayers ==
    pc = "returned"
        => /\ DOMAIN longest_killers = Observed(frags)
           /\ DOMAIN longest_losers = Observed(frags)
           /\ \A p \in Observed(frags) :
                /\ (\A i \in 1..Len(frags) : ~KillsAs(frags[i], p))
                      => longest_killers[p] = <<>>
                /\ (\A i \in 1..Len(frags) : ~DiesAs(frags[i], p))
                      => longest_losers[p] = <<>>

\* the results for a list with a player who only ever kills and a player
\* who only ever dies
C10_Witness ==
    /\ pc = "returned"
    /\ Len(frags) >= 2
    /\ \E p, q \in Observed(frags) :
         /\ longest_killers[p] = <<>> /\ longest_losers[p] # <<>>
         /\ longest_losers[q] = <<>> /\ longest_killers[q] # <<>>

----------------------------------------------------------------------------
(* Claims about one iteration of parse_frags (SpecFrags) *)

\* the raw minute the next frag line is compared with: the last frag
\* line's, or the session start's minute before the first frag line
PreviousRawMinute ==
    IF lines = <<>> THEN MinuteOf(header.t) ELSE lines[Len(lines)].min

\* C11: for each frag token the running reference time is advanced by
\* exactly one hour if and only if the token's raw minute is strictly less
\* than the previous frag token's raw minute (for the first token, than the
\* session-start minute), and then its minute and second are replaced by
\* the token's: the frag's timestamp is the previous reference time plus 0
\* or 1 hours with minute and second overwritten.
C11_HourAdvancedIffMinuteDrops ==
    [][(pc = "seeded" /\ Len(lines') = Len(lines) + 1)
          => LET tok == lines'[Len(lines')]
                 before == Val(frag_time)
                 after == Val(frag_time')
             IN /\ HourIndex(after) - HourIndex(before) =
                      (IF tok.min < PreviousRawMinute THEN 1 ELSE 0)
                /\ MinuteOf(after) = tok.min
                /\ SecondOf(after) = tok.sec
                /\ frags'[Len(frags')][1] = after
                /\ SubSeq(frags', 1, Len(frags)) = frags
      ]_vars

\* a frag at raw (05, 10) has been parsed after one at raw (59, 50) and is
\* in the hour after it
C11_Witness ==
    /\ pc = "seeded" /\ Len(frags) >= 2
    /\ LET n == Len(lines)
       IN /\ lines[n - 1].min = 59 /\ lines[n - 1].sec = 50
          /\ lines[n].min = 5 /\ lines[n].sec = 10
          /\ HourIndex(frags[n][1]) = HourIndex(frags[n - 1][1]) + 1
          /\ frag_time = Some(frags[n][1])

====
